---- MODULE Spec2Model ----
(***************************************************************************)
(* Model of app/main.py (Degree Verifier): the POST /upload handler        *)
(* upload_and_ocr and the helper preprocess_image, over a shared temporary *)
(* directory.  Each request is a process that walks the handler's          *)
(* statements; every filesystem call (mkstemp, open/copy, imread, imwrite, *)
(* os.path.exists, os.remove) is one atomic step, and the steps of         *)
(* different requests interleave.                                          *)
(***************************************************************************)
EXTENDS Naturals, Sequences, FiniteSets

(* ---------------------------- bounds ----------------------------------- *)

\* number of requests in flight
NReq == 2
\* number of distinct random stems mkstemp can draw for one suffix
NStems == 2
\* longest filename enumerated by the validation specification
MaxNameLen == 5
\* number of pixels of the images of the binarization specification
MaxPixels == 1

Reqs == 1..NReq
Stems == 1..NStems

(* ---------------------------- strings ---------------------------------- *)
\* A string is a sequence of one-character strings.

Jpg == <<"j", "p", "g">>
Jpeg == <<"j", "p", "e", "g">>
Png == <<"p", "n", "g">>

\* main.py:56, the list the extension is looked up in
AllowedExts == {Jpg, Jpeg, Png}

\* characters the enumerated filenames are built from
Alphabet == {".", "x", "j", "p", "e", "g", "n", "J", "P", "G"}

\* str.lower() on one character
LowerChar(c) ==
    CASE c = "J" -> "j"
      [] c = "P" -> "p"
      [] c = "E" -> "e"
      [] c = "G" -> "g"
      [] c = "N" -> "n"
      [] c = "X" -> "x"
      [] OTHER -> c

\* str.lower()
Lower(s) == [i \in 1..Len(s) |-> LowerChar(s[i])]

\* str.split("."): the pieces between the dots, left to right
RECURSIVE SplitDot(_)
SplitDot(s) ==
    IF \A i \in 1..Len(s) : s[i] # "."
    THEN <<s>>
    ELSE LET i == CHOOSE k \in 1..Len(s) :
                    s[k] = "." /\ \A m \in 1..(k - 1) : s[m] # "."
         IN <<SubSeq(s, 1, i - 1)>> \o SplitDot(SubSeq(s, i + 1, Len(s)))

\* list[-1]
LastOf(l) == l[Len(l)]

\* the extension taken from the filename as uploaded, its case kept
ExtOfCaseKept(fname) == LastOf(SplitDot(fname))

\* main.py:55  ext = file.filename.lower().split(".")[-1]
ExtOf(fname) == LastOf(SplitDot(Lower(fname)))

\* main.py:60  suffix = "." + ext
SuffixOf(e) == <<".">> \o e

(* ---------------------------- values ----------------------------------- *)

\* Python's None, where an exception or a result is expected
None == [kind |-> "None"]
\* a local variable that has not been assigned yet
Unbound == <<"<unbound>">>
\* the entry of a path at which there is no file
NoFile == [owner |-> 0, data |-> "<no file>"]

\* raise HTTPException(status_code=s, detail=d)
HTTPException(s, d) == [kind |-> "HTTPException", status |-> s, detail |-> d]
\* an exception that leaves the handler uncaught
Uncaught(type) == [kind |-> "uncaught", exc |-> type]
\* return <payload>
Returned(body) == [kind |-> "return", body |-> body]

\* main.py:52
NoFilenameDetail == <<"No filename provided">>
\* main.py:57
BadExtDetail == <<"Only JPG/PNG images are supported">>
\* main.py:75  f"OCR failed: {str(e)}"
OcrFailedDetail(msg) == <<"OCR failed: ", msg>>

\* main.py:51-57, the validation of the filename: the exception raised, or None
ValidationError(fname) ==
    IF fname = <<>>
    THEN HTTPException(400, NoFilenameDetail)
    ELSE IF ExtOf(fname) \notin AllowedExts
         THEN HTTPException(400, BadExtDetail)
         ELSE None

\* a payload that echoes the lowercased filename
PayloadLowered(fname, res) == [filename |-> Lower(fname), ocr_text |-> res]

\* main.py:84-87, the payload returned on success
Payload(fname, res) == [filename |-> fname, ocr_text |-> res]

(* ---------------------------- inputs ----------------------------------- *)

\* filenames of the requests of the pipeline specification
FileNames ==
    { <<>>,
      <<"P", "n", "g", ".", "x">>,
      <<"x", ".", "J", "P", "G">> }

\* every filename over Alphabet up to MaxNameLen characters
AllNames == UNION {[1..n -> Alphabet] : n \in 0..MaxNameLen}

\* uploaded byte streams: a decodable colour image, or anything else
Uploads == {"img", "junk"}

\* what reader.readtext can return
EngineOutputs == {<<>>, <<"b", "a", "b">>}

\* cv2.imread decodes these file contents; it returns None for the others
Decodable(data) == data \in {"img", "thresh"}

\* main.py:29, the threshold and the value given to the pixels above it
Thresh == 150
MaxVal == 255

\* the values of a pixel of an 8-bit grayscale image
Grey == 0..MaxVal

\* grayscale images, as the sequence of their pixels
Images == UNION {[1..n -> Grey] : n \in 1..MaxPixels}

\* a binarization that also turns the pixels equal to the threshold white
ThresholdAtLeast(v, t, maxval) == IF v >= t THEN maxval ELSE 0

\* cv2.threshold with cv2.THRESH_BINARY on one pixel: maxval when the pixel
\* is greater than the threshold, 0 otherwise
ThresholdBinary(v, t, maxval) == IF v > t THEN maxval ELSE 0

Suffixes == {SuffixOf(e) : e \in AllowedExts}
\* a path is the random stem mkstemp drew plus the suffix it was asked for
Paths == Stems \X Suffixes

(* ---------------------------- state ------------------------------------ *)

VARIABLES
    fs,        \* the temporary directory: path -> file, or NoFile
    pc,        \* request -> the statement it is about to run
    filename,  \* request -> file.filename, once the request has arrived
    frame,     \* request -> the local variables of its call
    outcome,   \* request -> how the handler ended, or None
    invoked,   \* request -> the collaborators it has called so far
    gray,      \* local gray of preprocess_image, <<>> while there is none
    thresh     \* local thresh of preprocess_image, <<>> while there is none

vars == <<fs, pc, filename, frame, outcome, invoked, gray, thresh>>

\* the pixel data, which the steps on paths and files leave alone
pixels == <<gray, thresh>>

\* the locals of one call of upload_and_ocr, none assigned yet; pre_path is
\* the local processed_path of preprocess_image, pending the exception
\* raised at main.py:75 while the finally block runs; present records which
\* scratch files of the call existed when reader.readtext was called
NoFrame ==
    [ext |-> Unbound, tmp_path |-> Unbound, pre_path |-> Unbound,
     processed_path |-> Unbound, results |-> Unbound, pending |-> None,
     present |-> {}]

\* a file: the request whose mkstemp/open created it, and its content
File(r, data) == [owner |-> r, data |-> data]

Exists(p) == fs[p] # NoFile

\* the paths of the files created by request r that still exist
OwnedBy(r) == {p \in Paths : Exists(p) /\ fs[p].owner = r}

\* the scratch files of the call of r that are in place: the staged and the
\* preprocessed path, where the file the request created still exists
InPlace(r) == {frame[r].tmp_path, frame[r].processed_path} \cap OwnedBy(r)

\* writing a file: open(path, "wb") or cv2.imwrite creates it when it is
\* absent and replaces its content when it is there
Written(p, r, data) ==
    [fs EXCEPT ![p] = IF fs[p] = NoFile THEN File(r, data)
                      ELSE [fs[p] EXCEPT !.data = data]]

\* os.remove(p) on an existing file
Removed(p) == [fs EXCEPT ![p] = NoFile]

\* no request has arrived and the temporary directory is empty
Idle ==
    /\ fs = [p \in Paths |-> NoFile]
    /\ pc = [r \in Reqs |-> "validate"]
    /\ filename = [r \in Reqs |-> Unbound]
    /\ frame = [r \in Reqs |-> NoFrame]
    /\ outcome = [r \in Reqs |-> None]
    /\ invoked = [r \in Reqs |-> {}]

Init ==
    /\ Idle
    /\ gray = <<>>
    /\ thresh = <<>>

\* the request goes on to the statement at label l
Goto(r, l) ==
    /\ pc' = [pc EXCEPT ![r] = l]
    /\ UNCHANGED outcome

\* the handler ends: the exception or the return value goes to the framework
\* and the locals of the call are gone
End(r, out) ==
    /\ outcome' = [outcome EXCEPT ![r] = out]
    /\ pc' = [pc EXCEPT ![r] = "done"]
    /\ frame' = [frame EXCEPT ![r] = NoFrame]

\* main.py:74-75: an exception raised inside the try block is replaced by
\* HTTPException(500, "OCR failed: ...") and the finally block is entered
Except(r, msg) ==
    /\ frame' = [frame EXCEPT ![r].pending =
                     HTTPException(500, OcrFailedDetail(msg))]
    /\ Goto(r, "exists_tmp")

\* the finally block is left: the exception in flight is re-raised, or the
\* handler goes on to its return statement (main.py:84-87)
Leave(r) ==
    End(r, IF frame[r].pending # None THEN frame[r].pending
           ELSE Returned(Payload(filename[r], frame[r].results)))

(* ---------------------------- upload_and_ocr --------------------------- *)

\* a handler that allocates its scratch file before it validates the filename
ValidateAfterCreate(r, fname) ==
    /\ pc[r] = "validate"
    /\ UNCHANGED pixels
    /\ filename' = [filename EXCEPT ![r] = fname]
    /\ IF ValidationError(fname) # None
       THEN /\ End(r, ValidationError(fname))
            /\ \E s \in Stems :
                 /\ ~Exists(<<s, SuffixOf(Jpg)>>)
                 /\ fs' = [fs EXCEPT ![<<s, SuffixOf(Jpg)>>] = File(r, "empty")]
            /\ invoked' = [invoked EXCEPT ![r] = @ \cup {"mkstemp"}]
       ELSE /\ frame' = [frame EXCEPT ![r].ext = ExtOf(fname)]
            /\ Goto(r, "mkstemp")
            /\ UNCHANGED <<fs, invoked>>

\* main.py:43, 51-57: a request arrives with file.filename = fname and is
\* validated
Validate(r, fname) ==
    /\ pc[r] = "validate"
    /\ UNCHANGED pixels
    /\ filename' = [filename EXCEPT ![r] = fname]
    /\ IF ValidationError(fname) # None
       THEN End(r, ValidationError(fname))
       ELSE /\ frame' = [frame EXCEPT ![r].ext = ExtOf(fname)]
            /\ Goto(r, "mkstemp")
    /\ UNCHANGED <<fs, invoked>>

\* a staging that names every scratch file .jpg, whatever was uploaded
StageCreateFixedSuffix(r) ==
    /\ pc[r] = "mkstemp"
    /\ UNCHANGED pixels
    /\ invoked' = [invoked EXCEPT ![r] = @ \cup {"mkstemp"}]
    /\ \/ \E s \in Stems :
            LET p == <<s, SuffixOf(Jpg)>> IN
            /\ ~Exists(p)
            /\ fs' = [fs EXCEPT ![p] = File(r, "empty")]
            /\ frame' = [frame EXCEPT ![r].tmp_path = p]
            /\ Goto(r, "copy")
       \/ /\ End(r, Uncaught("OSError"))
          /\ UNCHANGED fs
    /\ UNCHANGED filename

\* main.py:60-62  tempfile.mkstemp(suffix=suffix); os.close(tmp_fd)
StageCreate(r) ==
    /\ pc[r] = "mkstemp"
    /\ UNCHANGED pixels
    /\ invoked' = [invoked EXCEPT ![r] = @ \cup {"mkstemp"}]
    /\ \/ \E s \in Stems :
            LET p == <<s, SuffixOf(frame[r].ext)>> IN
            /\ ~Exists(p)
            /\ fs' = [fs EXCEPT ![p] = File(r, "empty")]
            /\ frame' = [frame EXCEPT ![r].tmp_path = p]
            /\ Goto(r, "copy")
       \/ /\ End(r, Uncaught("OSError"))
          /\ UNCHANGED fs
    /\ UNCHANGED filename

\* main.py:64-65  open(tmp_path, "wb"); shutil.copyfileobj(file.file, tmp)
StageCopy(r) ==
    /\ pc[r] = "copy"
    /\ UNCHANGED pixels
    /\ \/ \E bytes \in Uploads :
            /\ fs' = Written(frame[r].tmp_path, r, bytes)
            /\ Goto(r, "imread")
            /\ UNCHANGED frame
       \/ /\ fs' = Written(frame[r].tmp_path, r, "empty")
          /\ End(r, Uncaught("OSError"))
    /\ UNCHANGED <<filename, invoked>>

(* ---------------------------- preprocess_image ------------------------- *)

\* a preprocess_image that goes on to cv2.cvtColor with the None that
\* cv2.imread returned, which raises
ImreadNoFallback(r) ==
    /\ pc[r] = "imread"
    /\ UNCHANGED pixels
    /\ invoked' = [invoked EXCEPT ![r] = @ \cup {"preprocess_image"}]
    /\ IF Exists(frame[r].tmp_path) /\ Decodable(fs[frame[r].tmp_path].data)
       THEN /\ Goto(r, "cvt")
            /\ UNCHANGED frame
       ELSE Except(r, "cv2.error")
    /\ UNCHANGED <<fs, filename>>

\* main.py:69 calls preprocess_image(tmp_path); main.py:21-23
\* cv2.imread returns None for a missing or undecodable file
Imread(r) ==
    /\ pc[r] = "imread"
    /\ UNCHANGED pixels
    /\ invoked' = [invoked EXCEPT ![r] = @ \cup {"preprocess_image"}]
    /\ IF Exists(frame[r].tmp_path) /\ Decodable(fs[frame[r].tmp_path].data)
       THEN /\ Goto(r, "cvt")
            /\ UNCHANGED frame
       ELSE /\ frame' = [frame EXCEPT ![r].processed_path = frame[r].tmp_path]
            /\ Goto(r, "readtext")
    /\ UNCHANGED <<fs, filename>>

\* main.py:26-29  cv2.cvtColor and cv2.threshold, which work in memory
Binarize(r) ==
    /\ pc[r] = "cvt"
    /\ UNCHANGED pixels
    /\ \/ /\ Goto(r, "pre_mkstemp")
          /\ UNCHANGED frame
       \/ Except(r, "cv2.error")
    /\ UNCHANGED <<fs, filename, invoked>>

\* main.py:32-33  tempfile.mkstemp(suffix=".jpg"); os.close(processed_fd)
PreCreate(r) ==
    /\ pc[r] = "pre_mkstemp"
    /\ UNCHANGED pixels
    /\ invoked' = [invoked EXCEPT ![r] = @ \cup {"mkstemp"}]
    /\ \/ \E s \in Stems :
            LET p == <<s, SuffixOf(Jpg)>> IN
            /\ ~Exists(p)
            /\ fs' = [fs EXCEPT ![p] = File(r, "empty")]
            /\ frame' = [frame EXCEPT ![r].pre_path = p]
            /\ Goto(r, "imwrite")
       \/ /\ Except(r, "OSError")
          /\ UNCHANGED fs
    /\ UNCHANGED filename

\* main.py:34-36  cv2.imwrite(processed_path, thresh); return processed_path
\* the return value is assigned to processed_path at main.py:69
PreWrite(r) ==
    /\ pc[r] = "imwrite"
    /\ UNCHANGED pixels
    /\ \/ /\ fs' = Written(frame[r].pre_path, r, "thresh")
          /\ frame' = [frame EXCEPT ![r].processed_path = frame[r].pre_path]
          /\ Goto(r, "readtext")
       \/ /\ Except(r, "cv2.error")
          /\ UNCHANGED fs
    /\ UNCHANGED <<filename, invoked>>

(* ---------------------------- recognition and cleanup ------------------ *)

\* main.py:72  results = reader.readtext(processed_path, detail=0)
\* the engine returns fragments only for a file that is there to be read
Readtext(r) ==
    /\ pc[r] = "readtext"
    /\ UNCHANGED pixels
    /\ invoked' = [invoked EXCEPT ![r] = @ \cup {"readtext"}]
    /\ \/ \E t \in EngineOutputs :
            /\ Exists(frame[r].processed_path)
            /\ frame' = [frame EXCEPT ![r].results = t,
                                      ![r].present = InPlace(r)]
            /\ Goto(r, "exists_tmp")
       \/ Except(r, "engine error")
    /\ UNCHANGED <<fs, filename>>

\* main.py:79  if os.path.exists(tmp_path):
ExistsTmp(r) ==
    /\ pc[r] = "exists_tmp"
    /\ UNCHANGED pixels
    /\ Goto(r, IF Exists(frame[r].tmp_path) THEN "remove_tmp"
               ELSE "exists_processed")
    /\ UNCHANGED <<fs, filename, frame, invoked>>

\* main.py:80  os.remove(tmp_path), FileNotFoundError when the file is gone
RemoveTmp(r) ==
    /\ pc[r] = "remove_tmp"
    /\ UNCHANGED pixels
    /\ IF Exists(frame[r].tmp_path)
       THEN /\ fs' = Removed(frame[r].tmp_path)
            /\ Goto(r, "exists_processed")
            /\ UNCHANGED frame
       ELSE /\ End(r, Uncaught("FileNotFoundError"))
            /\ UNCHANGED fs
    /\ UNCHANGED <<filename, invoked>>

\* main.py:81  if os.path.exists(processed_path):
\* reading processed_path before its assignment is an UnboundLocalError
ExistsProcessed(r) ==
    /\ pc[r] = "exists_processed"
    /\ UNCHANGED pixels
    /\ IF frame[r].processed_path = Unbound
       THEN End(r, Uncaught("UnboundLocalError"))
       ELSE IF Exists(frame[r].processed_path)
            THEN /\ Goto(r, "remove_processed")
                 /\ UNCHANGED frame
            ELSE Leave(r)
    /\ UNCHANGED <<fs, filename, invoked>>

\* main.py:82  os.remove(processed_path)
RemoveProcessed(r) ==
    /\ pc[r] = "remove_processed"
    /\ UNCHANGED pixels
    /\ IF Exists(frame[r].processed_path)
       THEN /\ fs' = Removed(frame[r].processed_path)
            /\ Leave(r)
       ELSE /\ End(r, Uncaught("FileNotFoundError"))
            /\ UNCHANGED fs
    /\ UNCHANGED <<filename, invoked>>

(* ---------------------------- specification ---------------------------- *)

Next ==
    \E r \in Reqs :
        \/ \E fname \in FileNames : Validate(r, fname)
        \/ StageCreate(r)
        \/ StageCopy(r)
        \/ Imread(r)
        \/ Binarize(r)
        \/ PreCreate(r)
        \/ PreWrite(r)
        \/ Readtext(r)
        \/ ExistsTmp(r)
        \/ RemoveTmp(r)
        \/ ExistsProcessed(r)
        \/ RemoveProcessed(r)

Spec == Init /\ [][Next]_vars

\* the validation alone, on every filename up to MaxNameLen characters
NextValidate ==
    /\ pc[1] = "validate"
    /\ \E fname \in AllNames : Validate(1, fname)

SpecValidate == Init /\ [][NextValidate]_vars

\* main.py:29  _, thresh = cv2.threshold(gray, 150, 255, cv2.THRESH_BINARY)
Threshold ==
    /\ gray # <<>>
    /\ thresh = <<>>
    /\ thresh' = [i \in 1..Len(gray) |-> ThresholdBinary(gray[i], Thresh, MaxVal)]
    /\ UNCHANGED <<fs, pc, filename, frame, outcome, invoked, gray>>

\* the binarization alone, on every grayscale image of up to MaxPixels pixels
InitThreshold ==
    /\ Idle
    /\ gray \in Images
    /\ thresh = <<>>

SpecThreshold == InitThreshold /\ [][Threshold]_vars

\* validation and the creation of the staged file, on every filename of up to
\* MaxNameLen characters
NextStaging ==
    \/ /\ pc[1] = "validate"
       /\ \E fname \in AllNames : Validate(1, fname)
    \/ StageCreate(1)

SpecStaging == Init /\ [][NextStaging]_vars

(* ---------------------------- properties ------------------------------- *)

\* request r has ended with HTTPException(status, ...)
EndedWith(r, status) ==
    outcome[r].kind = "HTTPException" /\ outcome[r].status = status

\* request r takes the step that ends its handler
Ends(r) == outcome[r] = None /\ outcome'[r] # None

\* the extension as a reader of the filename sees it: the characters after
\* its last dot, or all of it when it has no dot
LastDot(fname) ==
    IF \E i \in 1..Len(fname) : fname[i] = "."
    THEN CHOOSE i \in 1..Len(fname) :
            fname[i] = "." /\ \A k \in (i + 1)..Len(fname) : fname[k] # "."
    ELSE 0

WrittenExt(fname) == SubSeq(fname, LastDot(fname) + 1, Len(fname))

\* two characters that differ at most in case
SameLetter(c, d) ==
    \/ c = d
    \/ {c, d} \in {{"j", "J"}, {"p", "P"}, {"e", "E"}, {"g", "G"}, {"n", "N"}}

EqIgnoreCase(a, b) ==
    Len(a) = Len(b) /\ \A i \in 1..Len(a) : SameLetter(a[i], b[i])

IsImageName(fname) == \E e \in {Jpg, Jpeg, Png} : EqIgnoreCase(WrittenExt(fname), e)

\* C1 (as claimed): once a request has ended, however it ended, none of
\* the scratch files it created exists any more.
C1_NoScratchFileLeft == \A r \in Reqs : pc[r] = "done" => OwnedBy(r) = {}

\* C2: a request whose filename has one of the extensions jpg, jpeg, png in
\* any case passes validation; an empty filename is rejected with 400 "No
\* filename provided" and every other filename with 400 "Only JPG/PNG images
\* are supported".
C2_Validation ==
    \A r \in Reqs :
        filename[r] # Unbound =>
            IF filename[r] = <<>>
            THEN outcome[r] = HTTPException(400, NoFilenameDetail)
            ELSE IF IsImageName(filename[r])
                 THEN outcome[r] = None /\ pc[r] = "mkstemp"
                 ELSE outcome[r] = HTTPException(400, BadExtDetail)

\* a filename with an upper-case extension has passed validation
C2_Witness ==
    \E r \in Reqs :
        /\ filename[r] # Unbound
        /\ pc[r] = "mkstemp"
        /\ WrittenExt(filename[r]) \notin AllowedExts

\* C3: a request that is rejected with 400 has called neither mkstemp nor
\* preprocess_image nor readtext, and the step that rejects it leaves the
\* temporary directory as it was.
C3_RejectedBeforeAnyResource ==
    [][\A r \in Reqs :
          EndedWith(r, 400)' =>
              /\ invoked'[r] = {}
              /\ Ends(r) => fs' = fs]_vars

\* a request was rejected while the temporary directory held another
\* request's scratch file
C3_Witness ==
    \E r \in Reqs :
        /\ EndedWith(r, 400)
        /\ \E q \in Reqs \ {r} : OwnedBy(q) # {}

\* C4 (as claimed): when reader.readtext has raised, the handler ends with
\* HTTPException(500, "OCR failed: " + the engine's message) and returns no
\* payload.
C4_RecognitionFailureIs500 ==
    [][\A r \in Reqs :
          (/\ frame[r].pending = HTTPException(500, OcrFailedDetail("engine error"))
           /\ Ends(r))
          => outcome'[r] = HTTPException(500, OcrFailedDetail("engine error"))]_vars

\* C5 (as claimed): when preprocess_image has raised, the handler ends with
\* HTTPException(500, "OCR failed: " + the message of the exception) and the
\* cleanup has released the request's scratch files.
C5_PreprocessFailureIs500 ==
    [][\A r \in Reqs :
          (/\ frame[r].pending # None
           /\ frame[r].processed_path = Unbound
           /\ Ends(r))
          => /\ outcome'[r] = frame[r].pending
             /\ OwnedBy(r)' = {}]_vars

\* C6 (as claimed): when staging fails (mkstemp or the copy of the upload
\* raises) the handler ends with HTTPException(500, "OCR failed: ...") and
\* the scratch file already created is released.
C6_StagingFailureIs500 ==
    [][\A r \in Reqs :
          (pc[r] \in {"mkstemp", "copy"} /\ Ends(r))
          => /\ EndedWith(r, 500)'
             /\ outcome'[r].detail[1] = "OCR failed: "
             /\ OwnedBy(r)' = {}]_vars

\* C7 (as claimed): once a request on which recognition was invoked has
\* ended, neither its staged file nor its preprocessed file exists.
C7_BothReleasedAfterRecognition ==
    \A r \in Reqs :
        (pc[r] = "done" /\ "readtext" \in invoked[r]) => OwnedBy(r) = {}

\* C8: a handler that returns, returns exactly the fields filename and
\* ocr_text, the filename as it was uploaded and ocr_text the sequence
\* reader.readtext returned.
C8_SuccessPayload ==
    [][\A r \in Reqs :
          (Ends(r) /\ outcome'[r].kind = "return")
          => /\ DOMAIN outcome'[r].body = {"filename", "ocr_text"}
             /\ outcome'[r].body.filename = filename[r]
             /\ outcome'[r].body.ocr_text = frame[r].results
             /\ frame[r].results \in EngineOutputs]_vars

\* a request has returned a filename with upper-case letters and an engine
\* output with a repeated, unsorted fragment
C8_Witness ==
    \E r \in Reqs :
        /\ outcome[r].kind = "return"
        /\ outcome[r].body.filename # Lower(outcome[r].body.filename)
        /\ outcome[r].body.ocr_text = <<"b", "a", "b">>

\* C9: on an input that cv2.imread cannot decode, preprocess_image returns
\* the path it was given, raises nothing, and leaves the temporary directory,
\* the input file included, as it was.
C9_FallbackReturnsInput ==
    [][\A r \in Reqs :
          (/\ pc[r] = "imread"
           /\ pc'[r] # "imread"
           /\ ~(Exists(frame[r].tmp_path) /\ Decodable(fs[frame[r].tmp_path].data)))
          => /\ pc'[r] = "readtext"
             /\ frame'[r].processed_path = frame[r].tmp_path
             /\ frame'[r].pending = None
             /\ outcome'[r] = None
             /\ fs' = fs]_vars

\* preprocess_image has fallen back on an undecodable staged upload
C9_Witness ==
    \E r \in Reqs :
        /\ pc[r] = "readtext"
        /\ frame[r].processed_path = frame[r].tmp_path
        /\ Exists(frame[r].tmp_path)
        /\ fs[frame[r].tmp_path] = File(r, "junk")

\* C10 (as claimed): when preprocess_image returns after decoding its input,
\* the path it returns differs from the input path, holds the binarized
\* image under the suffix .jpg, and the input file is still in place.
C10_NewDistinctFile ==
    \A r \in Reqs :
        (pc[r] = "readtext" /\ frame[r].pre_path # Unbound)
        => /\ frame[r].processed_path = frame[r].pre_path
           /\ frame[r].processed_path # frame[r].tmp_path
           /\ frame[r].processed_path[2] = SuffixOf(Jpg)

\* C11 (as claimed): binarization turns every pixel of value 150 or more
\* into 255 and every other pixel into 0.
C11_WhiteFromThreshold ==
    thresh # <<>> =>
        \A i \in 1..Len(gray) :
            thresh[i] = IF gray[i] >= 150 THEN 255 ELSE 0

\* C11 (amended): the binarized image has a pixel for every pixel of the
\* grayscale image, each 0 or 255: 255 where the grey value is 151 or more,
\* 0 where it is 150 or less, so a pixel of exactly 150 becomes black.
C11_WhiteAboveThreshold ==
    thresh # <<>> =>
        /\ Len(thresh) = Len(gray)
        /\ \A i \in 1..Len(gray) :
            /\ thresh[i] \in {0, 255}
            /\ gray[i] >= 151 => thresh[i] = 255
            /\ gray[i] <= 150 => thresh[i] = 0

\* an image with a pixel of exactly 150 has been binarized
C11_Witness ==
    /\ thresh # <<>>
    /\ \E i \in 1..Len(gray) : gray[i] = 150 /\ thresh[i] = 0

\* request r takes a step that removes the file at path p
Removes(r, p) ==
    /\ pc[r] \in {"remove_tmp", "remove_processed"}
    /\ pc'[r] # pc[r]
    /\ Exists(p)
    /\ fs'[p] = NoFile

\* C12 (as claimed): with several requests in flight every scratch file
\* belongs to one request, and the cleanup of a request removes only files
\* that this request created, also when a path it has freed was given to
\* another request in the meantime.
C12_CleanupRemovesOwnFilesOnly ==
    [][\A r \in Reqs : \A p \in Paths : Removes(r, p) => fs[p].owner = r]_vars

\* the state of the handler of section 4.4 that request r is in: Received 1,
\* Validated 2, Staged 3, Preprocessed 4, Recognized 5, Responded 7; Cleaned,
\* 6, is passed within the step that leaves the finally block
Phase(r) ==
    CASE pc[r] = "validate" -> 1
      [] pc[r] \in {"mkstemp", "copy"} -> 2
      [] pc[r] \in {"imread", "cvt", "pre_mkstemp", "imwrite"} -> 3
      [] pc[r] = "readtext" -> 4
      [] pc[r] \in {"exists_tmp", "remove_tmp", "exists_processed",
                    "remove_processed"} -> 5
      [] OTHER -> 7

\* C13 (as claimed): a request that ends with 200 has gone through Received,
\* Validated, Staged, Preprocessed, Recognized, Cleaned, Responded in this
\* order; when reader.readtext was called the staged file and the file at
\* the path preprocess_image returned both existed, and when the response is
\* produced none of its scratch files exists.
C13_SuccessfulRequestOrder ==
    [][\A r \in Reqs :
          /\ (frame'[r].pending = None /\ outcome'[r].kind # "uncaught"
              /\ outcome'[r].kind # "HTTPException")
             => \/ Phase(r)' \in {Phase(r), Phase(r) + 1}
                \/ Phase(r) = 5 /\ Phase(r)' = 7
          /\ (Ends(r) /\ outcome'[r].kind = "return")
             => /\ invoked[r] = {"mkstemp", "preprocess_image", "readtext"}
                /\ frame[r].present = {frame[r].tmp_path, frame[r].processed_path}
                /\ OwnedBy(r)' = {}]_vars

\* request r is on the fallback path: preprocessing handed back the staged
\* path, so cleanup releases the same path twice
Fallback(r) ==
    /\ frame[r].tmp_path # Unbound
    /\ frame[r].processed_path = frame[r].tmp_path

\* request r takes a step of its second release (main.py:81-82)
SecondRelease(r) ==
    /\ pc[r] \in {"exists_processed", "remove_processed"}
    /\ pc'[r] # pc[r]

\* C14: release is idempotent: no release raises for a path that is already
\* absent; on the fallback path the first release leaves the path absent, the
\* second release changes nothing in the scratch directory, and the request
\* ends with the outcome it had when cleanup began (its 500 "OCR failed", or
\* the 200 built from the recognized text)
C14_ReleaseIdempotent ==
    [][\A r \in Reqs :
          /\ Ends(r) => outcome'[r] # Uncaught("FileNotFoundError")
          /\ Fallback(r) =>
                /\ (pc[r] \in {"exists_tmp", "remove_tmp"}
                    /\ pc'[r] = "exists_processed")
                   => ~Exists(frame[r].tmp_path)'
                /\ SecondRelease(r) => fs' = fs
                /\ (SecondRelease(r) /\ Ends(r))
                   => outcome'[r] =
                        IF frame[r].pending # None THEN frame[r].pending
                        ELSE Returned(Payload(filename[r], frame[r].results))]_vars

\* the four outcomes the interface documents
Documented(out) ==
    \/ out = HTTPException(400, NoFilenameDetail)
    \/ out = HTTPException(400, BadExtDetail)
    \/ /\ out.kind = "HTTPException"
       /\ out.status = 500
       /\ Len(out.detail) = 2
       /\ out.detail[1] = "OCR failed: "
    \/ /\ out.kind = "return"
       /\ DOMAIN out.body = {"filename", "ocr_text"}

\* C15: every request that has ended has ended with one of the four
\* documented outcomes, never with an error raised outside them (such as one
\* from the cleanup block), and once it has an outcome it keeps it
C15_DocumentedOutcome ==
    [][\A r \in Reqs :
          /\ pc'[r] = "done" => Documented(outcome'[r])
          /\ outcome[r] # None => outcome'[r] = outcome[r]]_vars

\* the filename has a dot
Dotted(fname) == \E i \in 1..Len(fname) : fname[i] = "."

\* request r was not rejected by the validation
Passed(r) == filename[r] # Unbound /\ ~EndedWith(r, 400)

\* C16: the extension validation checks is the text after the last dot of the
\* lowercased filename (all of it when there is no dot): a non-empty filename
\* passes exactly when that text is jpg, jpeg or png and is otherwise rejected
\* with 400 "Only JPG/PNG images are supported", so of the dot-less names
\* exactly png, jpg and jpeg in any case pass; the staged file's name ends in
\* a dot plus that extension
C16_ExtensionAndSuffix ==
    \A r \in Reqs :
        (filename[r] # Unbound /\ filename[r] # <<>>) =>
            LET ext == WrittenExt(Lower(filename[r])) IN
            /\ Passed(r) <=> ext \in AllowedExts
            /\ ~Passed(r) => outcome[r] = HTTPException(400, BadExtDetail)
            /\ ~Dotted(filename[r]) =>
                  (Passed(r) <=> Lower(filename[r]) \in {Png, Jpg, Jpeg})
            /\ pc[r] = "mkstemp" => frame[r].ext = ext
            /\ pc[r] = "copy" =>
                  /\ frame[r].tmp_path[2] = <<".">> \o ext
                  /\ Exists(frame[r].tmp_path)

\* the file named exactly "JPG" has passed validation and is staged under a
\* name ending in .jpg
C16_Witness ==
    \E r \in Reqs :
        /\ filename[r] = <<"J", "P", "G">>
        /\ pc[r] = "copy"
        /\ frame[r].tmp_path[2] = <<".", "j", "p", "g">>
        /\ Exists(frame[r].tmp_path)

====
